---- MODULE Spec2Model ----
(***************************************************************************)
(* A model of docs/autogen.py, the documentation generator of spektral.    *)
(*                                                                         *)
(* Text is modelled as a sequence of symbols.  File contents and paths are *)
(* sequences of tokens (a word, a separator, the tag {{autogenerated}});   *)
(* docstrings are sequences of single characters.  Python's str methods    *)
(* are operators on such sequences, written as the methods compute.        *)
(***************************************************************************)
EXTENDS Integers, Sequences, FiniteSets, TLC

VARIABLES
    fs,        \* the file system: path -> content, for every existing file
    manifest,  \* PAGES, the list of page entries
    ids,       \* id(x) of the library objects in the running interpreter
    pc,        \* position of the script
    idx,       \* index in PAGES of the entry the page loop is at
    run,       \* which execution of the script this is
    snap,      \* the output directory as the previous execution left it
    before,    \* the file system before the last step
    last,      \* what the last step printed / raised
    call,      \* a function of the script applied on its own: its name and arguments
    result     \* what that call returned or raised

vars == <<fs, manifest, ids, pc, idx, run, snap, before, last, call, result>>

\* the variables of the script's run, and those of a single call
scriptVars == <<fs, manifest, ids, pc, idx, run, snap, before, last>>

callVars == <<call, result>>

-----------------------------------------------------------------------------
(* Python sequence and str operations *)

Min(a, b) == IF a < b THEN a ELSE b

Max(a, b) == IF a > b THEN a ELSE b

\* s[i:] with 0-based i >= 0
From(s, i) == SubSeq(s, i + 1, Len(s))

\* s[:i] with 0-based i >= 0
Upto(s, i) == SubSeq(s, 1, Min(i, Len(s)))

\* whether sub occurs in s at 0-based position i
StartsAt(s, sub, i) ==
    /\ i + Len(sub) <= Len(s)
    /\ SubSeq(s, i + 1, i + Len(sub)) = sub

\* s.find(sub): the 0-based position of the first occurrence, or -1
Find(s, sub) ==
    LET hits == {i \in 0..(Len(s) - Len(sub)) : StartsAt(s, sub, i)}
    IN  IF hits = {} THEN -1 ELSE CHOOSE i \in hits : \A j \in hits : i <= j

\* sub in s
Contains(s, sub) == Find(s, sub) # -1

\* s.replace(old, new, count) for a non-empty old; count = -1 replaces all
RECURSIVE Replace(_, _, _, _)
Replace(s, old, new, count) ==
    LET i == Find(s, old)
    IN  IF count = 0 \/ i = -1
        THEN s
        ELSE Upto(s, i) \o new
             \o Replace(From(s, i + Len(old)), old, new,
                        IF count < 0 THEN count ELSE count - 1)

\* s.count(sub): non-overlapping occurrences
RECURSIVE CountOf(_, _)
CountOf(s, sub) ==
    LET i == Find(s, sub)
    IN  IF i = -1 THEN 0 ELSE 1 + CountOf(From(s, i + Len(sub)), sub)

\* sep.join(parts)
RECURSIVE Join(_, _)
Join(sep, parts) ==
    IF parts = <<>> THEN <<>>
    ELSE IF Len(parts) = 1 THEN parts[1]
    ELSE parts[1] \o sep \o Join(sep, Tail(parts))

\* s.split(sep) for a non-empty sep
RECURSIVE Split(_, _)
Split(s, sep) ==
    LET i == Find(s, sep)
    IN  IF i = -1 THEN <<s>>
        ELSE <<Upto(s, i)>> \o Split(From(s, i + Len(sep)), sep)

\* the concatenation of a sequence of sequences
RECURSIVE Flatten(_)
Flatten(ss) == IF ss = <<>> THEN <<>> ELSE ss[1] \o Flatten(Tail(ss))

\* the elements of a sequence
Range(s) == {s[i] : i \in DOMAIN s}

\* the sequence s without the elements failing Keep, in order
FilterSeq(s, Keep(_)) == SelectSeq(s, Keep)

-----------------------------------------------------------------------------
(* The page loop: paths, the manifest, page assembly *)

TOK == "{{autogenerated}}"

Tag == <<TOK>>

SourcesDir == <<"sources">>

TemplatesDir == <<"templates">>

\* os.path.join(dir, name)
PathJoin(dir, name) == dir \o <<"/">> \o name

\* whether path p lies under directory dir
Under(p, dir) == Len(p) > Len(dir) + 1 /\ Upto(p, Len(dir) + 1) = dir \o <<"/">>

\* fname[-3:] == ".md": file names are tokenised with the extension as a token
IsMarkdown(p) == Len(p) >= 1 /\ p[Len(p)] = ".md"

\* fpath.replace("templates", "sources"): every occurrence in the whole path
PopulateTarget(p) == Replace(p, TemplatesDir, SourcesDir, -1)

\* the part of the file system under the output directory
SourcesOf(f) == [p \in {q \in DOMAIN f : Under(q, SourcesDir)} |-> f[p]]

\* shutil.rmtree("sources") when it exists
RmTree(f) == [p \in {q \in DOMAIN f : ~Under(q, SourcesDir)} |-> f[p]]

\* open(path, "w").write(text), shutil.copy(src, path)
WriteFile(f, p, text) == [q \in DOMAIN f \cup {p} |-> IF q = p THEN text ELSE f[q]]

-----------------------------------------------------------------------------
(* The library whose objects the manifest names *)

\* the objects of the library: classes and functions
Objects == {"ClsA", "ClsB", "Ext", "_Priv", "fnF", "fnTag"}

\* the one module a wildcard entry may name, and dir(module) in its sorted order
LibName == <<"lib">>

DirOf(module) == IF module = LibName THEN <<"ClsA", "ClsB", "Ext", "_Priv", "fnF">> ELSE <<>>

\* inspect.isclass / inspect.isfunction
IsClass(o) == o \in {"ClsA", "ClsB", "Ext", "_Priv"}

IsFunction(o) == o \in {"fnF", "fnTag"}

\* instance.__module__
ModuleOf(o) == IF o = "Ext" THEN <<"other">> ELSE <<"lib", ".", "sub">>

\* EXCLUDE = {}
EXCLUDE == {}

\* the Markdown block rendered for an object (its heading, signature and
\* docstring, taken as one token); fnTag's docstring holds the tag
RenderBlock(o) == IF o = "fnTag" THEN <<"fnTag", TOK>> ELSE <<o>>

\* module_data.sort(key=lambda x: id(x))
RECURSIVE SortById(_, _)
SortById(set, id) ==
    IF set = {} THEN <<>>
    ELSE LET m == CHOOSE x \in set : \A y \in set : id[x] <= id[y]
         IN  <<m>> \o SortById(set \ {m}, id)

\* name[0] == "_" is read off the first character of the object's name
Private(o) == o = "_Priv"

\* the members of a module that a wildcard of the given type keeps
ModuleDataOf(module, type) ==
    {o \in Range(DirOf(module)) :
        /\ ~(Private(o) \/ o \in EXCLUDE)
        /\ \/ IsClass(o) /\ type = "classes"
           \/ IsFunction(o) /\ type = "functions"
        /\ Contains(ModuleOf(o), module)}

\* read_page_data(page_data, type)
RECURSIVE WildcardData(_, _, _)
WildcardData(modules, type, id) ==
    IF modules = <<>> THEN <<>>
    ELSE SortById(ModuleDataOf(modules[1], type), id)
         \o WildcardData(Tail(modules), type, id)

read_page_data(page_data, type, id) ==
    page_data[type]
    \o (IF type = "classes" THEN WildcardData(page_data.all_module_classes, type, id)
        ELSE IF type = "functions" THEN WildcardData(page_data.all_module_functions, type, id)
        ELSE <<>>)

\* the blocks of a page: classes, then methods, then functions
Blocks(page_data, id) ==
    LET all == read_page_data(page_data, "classes", id)
               \o read_page_data(page_data, "methods", id)
               \o read_page_data(page_data, "functions", id)
    IN  [i \in DOMAIN all |-> RenderBlock(all[i])]

BlockSep == <<"\n----\n\n">>

\* a variant of Mkdown that ends the page with a separator
MkdownTrailingSep(page_data, id) == Join(BlockSep, Blocks(page_data, id)) \o BlockSep

\* mkdown = "\n----\n\n".join(blocks)
Mkdown(page_data, id) == Join(BlockSep, Blocks(page_data, id))

\* path = os.path.join("sources", page_name)
PagePath(page_data) == PathJoin(SourcesDir, page_data.page)

\* a variant of HasTag that accepts every template
HasTagAlways(template) == TRUE

\* "{{autogenerated}}" in template
HasTag(template) == Contains(template, Tag)

\* a variant of InsertContent that replaces the last occurrence
InsertContentLast(template, mkdown) ==
    LET hits == {i \in 1..Len(template) : template[i] = TOK}
    IN  IF hits = {} THEN template
        ELSE LET i == CHOOSE x \in hits : \A y \in hits : y <= x
             IN  SubSeq(template, 1, i - 1) \o mkdown
                 \o SubSeq(template, i + 1, Len(template))

\* a variant of InsertContent that replaces every occurrence
InsertContentAll(template, mkdown) == Replace(template, Tag, mkdown, -1)

\* template.replace("{{autogenerated}}", mkdown, 1)
InsertContent(template, mkdown) == Replace(template, Tag, mkdown, 1)

\* index.replace("{{autogenerated}}", readme)
InsertReadme(index, readme) == Replace(index, Tag, readme, -1)

-----------------------------------------------------------------------------
(* The files the script reads and writes *)

ReadmePath == <<"..", "/", "README", ".md">>

IndexTemplate == <<"templates", "/", "index", ".md">>

IndexPage == <<"sources", "/", "index", ".md">>

\* the fixed copies made on every page iteration: <<source, destination>>
AssetCopies ==
    { <<<<"stylesheets", "/", "extra", ".css">>,
        <<"sources", "/", "stylesheets", "/", "extra", ".css">>>>,
      <<<<"js", "/", "macros", ".js">>,
        <<"sources", "/", "js", "/", "macros", ".js">>>>,
      <<<<"img", "/", "favicon", ".ico">>,
        <<"sources", "/", "custom_theme", "/", "img", "/", "favicon", ".ico">>>>,
      <<<<"templates", "/", "brave-rewards-verification", ".txt">>,
        <<"sources", "/", ".well-known", "/", "brave-rewards-verification", ".txt">>>>,
      <<<<"templates", "/", "google8a76765aa72fa8c1", ".html">>,
        <<"sources", "/", "google8a76765aa72fa8c1", ".html">>>> }

\* glob.glob("./img/*.svg"), each copied into sources/img/
SvgCopies(f) ==
    { <<p, <<"sources", "/">> \o p>> :
        p \in {q \in DOMAIN f : Under(q, <<"img">>) /\ Len(q) = 4 /\ q[4] = ".svg"} }

\* the static-asset copies that end every page iteration
CopyAssets(f) ==
    LET copies == AssetCopies \cup SvgCopies(f)
        dsts   == {c[2] : c \in copies}
    IN  [p \in DOMAIN f \cup dsts |->
            IF p \in dsts THEN f[(CHOOSE c \in copies : c[2] = p)[1]] ELSE f[p]]

\* the template files os.walk("templates") yields that are copied
Copied(f) == {p \in DOMAIN f : Under(p, TemplatesDir) /\ IsMarkdown(p)}

\* the populate loop: every Markdown template is copied to its replaced path;
\* when two templates have the same replaced path the later copy wins, and
\* os.walk fixes no order among them
PopulateResults(f) ==
    LET dsts == {PopulateTarget(p) : p \in Copied(f)}
    IN  { [p \in DOMAIN f \cup dsts |->
             IF p \in dsts THEN f[pick[p]] ELSE f[p]] :
          pick \in {g \in [dsts -> Copied(f)] : \A d \in dsts : PopulateTarget(g[d]) = d} }

-----------------------------------------------------------------------------
(* Inputs *)

\* the most entries of a manifest
MaxEntries == 2

PageA == <<"a", ".md">>

PageB == <<"layers", "/", "b", ".md">>

Pages == {PageA, PageB}

\* what an entry may list
Listings ==
    { [classes |-> <<"ClsA">>, methods |-> <<>>, functions |-> <<>>,
       all_module_classes |-> <<>>, all_module_functions |-> <<>>],
      [classes |-> <<>>, methods |-> <<>>, functions |-> <<>>,
       all_module_classes |-> <<LibName>>, all_module_functions |-> <<LibName>>],
      [classes |-> <<>>, methods |-> <<>>, functions |-> <<>>,
       all_module_classes |-> <<>>, all_module_functions |-> <<>>],
      [classes |-> <<>>, methods |-> <<>>, functions |-> <<"fnTag">>,
       all_module_classes |-> <<>>, all_module_functions |-> <<>>] }

Entries ==
    { [page |-> p, classes |-> l.classes, methods |-> l.methods,
       functions |-> l.functions, all_module_classes |-> l.all_module_classes,
       all_module_functions |-> l.all_module_functions] : p \in Pages, l \in Listings }

Manifests == UNION {[1..n -> Entries] : n \in 1..MaxEntries}

\* the address layouts of the interpreter: id(x) for the library's objects
Layouts ==
    { [o \in Objects |-> CASE o = "ClsA" -> 1 [] o = "ClsB" -> 2 [] o = "Ext" -> 3
                           [] o = "_Priv" -> 4 [] o = "fnF" -> 5 [] OTHER -> 6],
      [o \in Objects |-> CASE o = "ClsA" -> 6 [] o = "ClsB" -> 5 [] o = "Ext" -> 4
                           [] o = "_Priv" -> 3 [] o = "fnF" -> 2 [] OTHER -> 1] }

\* a file system from a set of <<path, content>> pairs
MkFs(pairs) == [p \in {x[1] : x \in pairs} |-> (CHOOSE x \in pairs : x[1] = p)[2]]

\* the files every run needs: the README, the home template, the static assets
FixedFiles ==
    { <<ReadmePath, <<"readme">>>>,
      <<IndexTemplate, <<"home", TOK>>>>,
      <<<<"img", "/", "logo", ".svg">>, <<"svg">>>> }
    \cup { <<c[1], <<c[1][3]>>>> : c \in AssetCopies }

\* the template of page a.md: none, without the tag, with one, with two
TemplateAChoices ==
    { {}, {<<PathJoin(TemplatesDir, PageA), <<"h">>>>},
      {<<PathJoin(TemplatesDir, PageA), <<"h", TOK, "t">>>>},
      {<<PathJoin(TemplatesDir, PageA), <<TOK, "m", TOK>>>>} }

\* the template of page layers/b.md: none, or with one tag
TemplateBChoices ==
    { {}, {<<PathJoin(TemplatesDir, PageB), <<TOK, "t">>>>} }

\* a template named templates.md, and a file a previous run left
OtherChoices ==
    { {}, {<<<<"templates", "/", "templates", ".md">>, <<"about">>>>},
      {<<<<"sources", "/", "old", ".md">>, <<"old">>>>} }

Init ==
    /\ \E a \in TemplateAChoices, b \in TemplateBChoices, o \in OtherChoices :
          fs = MkFs(FixedFiles \cup a \cup b \cup o)
    /\ manifest \in Manifests
    /\ ids \in Layouts
    /\ pc = "reset"
    /\ idx = 0
    /\ run = 1
    /\ snap = << >>
    /\ before = fs
    /\ last = [op |-> "start", idx |-> 0]
    /\ call = [op |-> "none"]
    /\ result = [op |-> "none"]

-----------------------------------------------------------------------------
(* The script *)

\* lines 420-422: delete the output directory
CleanUp ==
    /\ pc = "reset"
    /\ fs' = RmTree(fs)
    /\ pc' = "populate"
    /\ before' = fs
    /\ last' = [op |-> "clean", idx |-> 0]
    /\ UNCHANGED <<manifest, ids, idx, run, snap, call, result>>

\* lines 424-433: copy the Markdown templates
Populate ==
    /\ pc = "populate"
    /\ fs' \in PopulateResults(fs)
    /\ pc' = "index"
    /\ before' = fs
    /\ last' = [op |-> "populate", idx |-> 0]
    /\ UNCHANGED <<manifest, ids, idx, run, snap, call, result>>

\* lines 490-495: the home page
HomePage ==
    /\ pc = "index"
    /\ fs' = WriteFile(fs, IndexPage, InsertReadme(fs[IndexTemplate], fs[ReadmePath]))
    /\ pc' = IF manifest = <<>> THEN "done" ELSE "pages"
    /\ idx' = 1
    /\ before' = fs
    /\ last' = [op |-> "index", idx |-> 0]
    /\ UNCHANGED <<manifest, ids, run, snap, call, result>>

\* lines 498-592, the page exists: insert into it, then copy the assets
InsertPage ==
    /\ pc = "pages"
    /\ LET page_data == manifest[idx]
           path == PagePath(page_data)
       IN  /\ path \in DOMAIN fs
           /\ HasTag(fs[path])
           /\ fs' = CopyAssets(WriteFile(fs, path,
                        InsertContent(fs[path], Mkdown(page_data, ids))))
    /\ pc' = IF idx = Len(manifest) THEN "done" ELSE "pages"
    /\ idx' = idx + 1
    /\ before' = fs
    /\ last' = [op |-> "insert", idx |-> idx]
    /\ UNCHANGED <<manifest, ids, run, snap, call, result>>

\* lines 498-592, the page does not exist: create it, then copy the assets
CreatePage ==
    /\ pc = "pages"
    /\ LET page_data == manifest[idx]
           path == PagePath(page_data)
       IN  /\ path \notin DOMAIN fs
           /\ fs' = CopyAssets(WriteFile(fs, path, Mkdown(page_data, ids)))
    /\ pc' = IF idx = Len(manifest) THEN "done" ELSE "pages"
    /\ idx' = idx + 1
    /\ before' = fs
    /\ last' = [op |-> "create", idx |-> idx]
    /\ UNCHANGED <<manifest, ids, run, snap, call, result>>

\* lines 550-554: the page exists without the tag: AssertionError ends the run
AssertFail ==
    /\ pc = "pages"
    /\ LET path == PagePath(manifest[idx])
       IN  /\ path \in DOMAIN fs
           /\ ~HasTag(fs[path])
    /\ pc' = "failed"
    /\ before' = fs
    /\ last' = [op |-> "assert", idx |-> idx]
    /\ UNCHANGED <<fs, manifest, ids, idx, run, snap, call, result>>

\* the script is run again on the same inputs, in a new interpreter
Rerun ==
    /\ pc \in {"done", "failed"}
    /\ run = 1
    /\ run' = 2
    /\ snap' = SourcesOf(fs)
    /\ ids' \in Layouts
    /\ pc' = "reset"
    /\ idx' = 0
    /\ before' = fs
    /\ last' = [op |-> "start", idx |-> 0]
    /\ UNCHANGED <<fs, manifest, call, result>>

Next ==
    \/ CleanUp
    \/ Populate
    \/ HomePage
    \/ InsertPage
    \/ CreatePage
    \/ AssertFail
    \/ Rerun

Spec == Init /\ [][Next]_vars

-----------------------------------------------------------------------------
(* Properties of the page loop *)

\* the last step processed a manifest entry
AtEntry == last.op \in {"insert", "create", "assert"}

\* the entry the last step processed, its page file, its generated content
LastEntry == manifest[last.idx]

LastPath == PathJoin(SourcesDir, LastEntry.page)

LastContent == Join(BlockSep, Blocks(LastEntry, ids))

\* the path relative to the directory that holds it
RelPath(p) == From(p, 2)

\* the Markdown files of the output directory
PageFiles(f) == {p \in DOMAIN f : Under(p, SourcesDir) /\ IsMarkdown(p)}

\* the position (1-based) of the first tag of a text that holds one
FirstTag(t) == CHOOSE i \in 1..Len(t) : t[i] = TOK /\ \A j \in 1..(i - 1) : t[j] # TOK

\* the number of tags of a text
TagCount(t) == Cardinality({i \in 1..Len(t) : t[i] = TOK})

\* C1: an entry whose page file exists without the tag aborts the run with an
\* assertion failure: the file system is left as it was (the page unchanged,
\* no asset copied, earlier pages as written), the loop does not advance, and
\* the failed run takes no further step (only a new run follows).
C1_AssertAborts ==
    /\ [](AtEntry /\ LastPath \in DOMAIN before /\ TagCount(before[LastPath]) = 0
            => last.op = "assert" /\ pc = "failed" /\ fs = before /\ idx = last.idx)
    /\ [][pc = "failed" => pc' = "reset" /\ run' = run + 1 /\ fs' = fs]_vars

C1_Witness ==
    /\ pc = "failed" /\ last.op = "assert" /\ last.idx = 2
    /\ PagePath(manifest[1]) \in DOMAIN fs
    /\ PagePath(manifest[1]) # PagePath(manifest[2])

\* C2 as stated: an entry whose page has no template file under the template
\* directory creates the page with exactly its generated blocks and raises no
\* assertion failure, also when several entries name the same page.
C2_NoTemplateCreates ==
    AtEntry /\ PathJoin(TemplatesDir, LastEntry.page) \notin DOMAIN fs
        => /\ last.op # "assert"
           /\ LastPath \in DOMAIN fs
           /\ fs[LastPath] = LastContent

\* C2 amended: an entry whose page file does not exist in the output directory
\* when the entry is processed creates the page with exactly its generated
\* blocks and raises no assertion failure.
C2_AbsentPageCreates ==
    AtEntry /\ LastPath \notin DOMAIN before
        => /\ last.op = "create"
           /\ pc # "failed"
           /\ LastPath \in DOMAIN fs
           /\ fs[LastPath] = LastContent

C2_Witness ==
    /\ last.op = "create" /\ last.idx = 2
    /\ Len(Blocks(LastEntry, ids)) >= 2
    /\ fs[LastPath] = LastContent

\* C3: an entry whose page file holds n >= 1 tags has exactly the first one
\* replaced by its generated content; the text before and after it, with the
\* other n-1 tags, is unchanged, and no other page file is touched.
C3_FirstTagReplaced ==
    AtEntry /\ LastPath \in DOMAIN before /\ TagCount(before[LastPath]) >= 1
        => LET t == before[LastPath]
               i == FirstTag(t)
           IN  /\ last.op = "insert"
               /\ fs[LastPath] = SubSeq(t, 1, i - 1) \o LastContent \o SubSeq(t, i + 1, Len(t))
               /\ PageFiles(fs) = PageFiles(before)
               /\ \A q \in PageFiles(before) \ {LastPath} : fs[q] = before[q]

C3_Witness ==
    /\ last.op = "insert"
    /\ TagCount(before[LastPath]) = 2
    /\ LastContent # <<>>
    /\ PageFiles(before) \ {LastPath} # {}

\* C4: a second run on unchanged inputs leaves the output directory with the
\* same files and the same contents as the first run left.
C4_Idempotent ==
    run = 2 /\ pc \in {"done", "failed"} => SourcesOf(fs) = snap

\* C5: after reset-and-populate the output directory holds no file of a
\* previous run, and a copy of every file under the template directory at the
\* same relative path.
C5_PopulateCopiesAll ==
    last.op = "populate"
        => /\ \A p \in DOMAIN fs : Under(p, SourcesDir)
                => PathJoin(TemplatesDir, RelPath(p)) \in DOMAIN fs
           /\ \A t \in DOMAIN fs : Under(t, TemplatesDir)
                => /\ PathJoin(SourcesDir, RelPath(t)) \in DOMAIN fs
                   /\ fs[PathJoin(SourcesDir, RelPath(t))] = fs[t]

\* the entries among the first n of the manifest that name page p, in
\* manifest order
EntriesOf(p, n) ==
    LET Names(i) == i <= n /\ manifest[i].page = p
    IN  SelectSeq([i \in 1..Len(manifest) |-> i], Names)

\* the content generated for entry i
ContentAt(i) == Join(BlockSep, Blocks(manifest[i], ids))

\* the template of page p, and the page file
TemplateOf(p) == PathJoin(TemplatesDir, p)

PageOf(p) == PathJoin(SourcesDir, p)

\* text t with its first Len(es) tags replaced, in order, by the contents of
\* the entries es
FirstTagsReplaced(t, es) ==
    LET parts == Split(t, Tag)
    IN  Flatten([i \in 1..Len(es) |-> parts[i] \o ContentAt(es[i])])
        \o Join(Tag, SubSeq(parts, Len(es) + 1, Len(parts)))

\* page p has a template with a tag, and no content generated for it holds
\* the tag
TaggedAndClean(p) ==
    /\ TemplateOf(p) \in DOMAIN fs
    /\ TagCount(fs[TemplateOf(p)]) >= 1
    /\ \A i \in Range(EntriesOf(p, Len(manifest))) : ~Contains(ContentAt(i), Tag)

\* C11 as stated: at the end of a run, a page named by k entries whose
\* template has at least k tags has had no assertion failure and is the
\* template with its first k tags replaced, in order, by the contents of its
\* k entries; with fewer tags (at least one) the run has failed at the
\* page's entry number (tags + 1).
C11_SequentialTags ==
    pc \in {"done", "failed"}
        => \A p \in Pages :
              LET all == EntriesOf(p, Len(manifest))
                  m == TagCount(fs[TemplateOf(p)])
              IN  TaggedAndClean(p) /\ Len(all) >= 1
                    => IF m >= Len(all)
                       THEN /\ ~(pc = "failed" /\ manifest[idx].page = p)
                            /\ fs[PageOf(p)] = FirstTagsReplaced(fs[TemplateOf(p)], all)
                       ELSE pc = "failed" /\ idx = all[m + 1]

\* C11, as long as the run is not aborted on another page: whenever the loop
\* has processed the entries before idx, a page with j entries among them has
\* j tags at most in its template and is the template with its first j tags
\* replaced, in order, by the contents of those entries in manifest order;
\* and an assertion failure on the page happens exactly at its entry number
\* (tags + 1).
C11_SequentialTagsUnlessAborted ==
    pc \in {"pages", "done", "failed"}
        => \A p \in Pages :
              LET es == EntriesOf(p, idx - 1)
                  m == TagCount(fs[TemplateOf(p)])
              IN  TaggedAndClean(p)
                    => /\ Len(es) <= m
                       /\ fs[PageOf(p)] = FirstTagsReplaced(fs[TemplateOf(p)], es)
                       /\ pc = "failed" /\ manifest[idx].page = p => Len(es) = m
                       /\ pc = "pages" /\ manifest[idx].page = p /\ Len(es) = m
                             => ~HasTag(fs[PageOf(p)])
                       /\ pc = "done" => Len(es) = Len(EntriesOf(p, Len(manifest)))

\* a run that ends with a page named twice, its two tags replaced by the two
\* different contents of its entries
C11_Witness ==
    /\ pc = "done"
    /\ Len(manifest) = 2
    /\ manifest[1].page = PageA /\ manifest[2].page = PageA
    /\ TaggedAndClean(PageA)
    /\ TagCount(fs[TemplateOf(PageA)]) = 2
    /\ ContentAt(1) # <<>> /\ ContentAt(2) # <<>> /\ ContentAt(1) # ContentAt(2)
    /\ fs[PageOf(PageA)] = ContentAt(1) \o <<"m">> \o ContentAt(2)

-----------------------------------------------------------------------------
(* Docstrings: text as a sequence of characters *)

\* Python's slice bounds: a negative index counts from the end
PyIdx(n, i) == IF i < 0 THEN Max(n + i, 0) ELSE Min(i, n)

\* s[i:j]
Slice(s, i, j) ==
    LET a == PyIdx(Len(s), i)
        b == PyIdx(Len(s), j)
    IN  IF a >= b THEN <<>> ELSE SubSeq(s, a + 1, b)

\* s[i:]
SliceFrom(s, i) == Slice(s, i, Len(s))

\* s.find(sub, start), 0 <= start
FindFrom(s, sub, start) ==
    LET hits == {i \in start..(Len(s) - Len(sub)) : StartsAt(s, sub, i)}
    IN  IF hits = {} THEN -1 ELSE CHOOSE i \in hits : \A j \in hits : i <= j

\* s.replace(old, new); an empty old matches before every character and at the end
PyReplace(s, old, new) ==
    IF old = <<>>
    THEN Flatten([i \in 1..Len(s) |-> new \o <<s[i]>>]) \o new
    ELSE Replace(s, old, new, -1)

\* "%d" % n
RECURSIVE Decimal(_)
Decimal(n) ==
    LET d == <<"0", "1", "2", "3", "4", "5", "6", "7", "8", "9">>
    IN  IF n < 10 THEN <<d[n + 1]>> ELSE Decimal(n \div 10) \o <<d[(n % 10) + 1]>>

NL == <<"\n">>

\* the backtick, written "~": a TLA+ string cannot hold the character itself
Tick == "~"

\* "```"
Fence == <<Tick, Tick, Tick>>

\* \s
IsWhite(c) == c \in {" ", "\n", "\t"}

\* the position of the first character of s that Ok accepts, or -1
FirstWhere(s, Ok(_)) ==
    LET hits == {i \in 1..Len(s) : Ok(s[i])}
    IN  IF hits = {} THEN -1 ELSE (CHOOSE i \in hits : \A j \in hits : i <= j) - 1

NotWhite(c) == ~IsWhite(c)

\* count_leading_spaces(s)
count_leading_spaces(s) ==
    LET ws == FirstWhere(s, NotWhite)
    IN  IF ws # -1 THEN ws ELSE 0

\* "$CODE_BLOCK_%d" % i
CodeMarker(i) == <<"$", "C", "O", "D", "E", "_", "B", "L", "O", "C", "K", "_">> \o Decimal(i)

\* lines 357-365: the least indentation of the non-empty inner lines, or -1 for None
RECURSIVE LeastIndent(_, _)
LeastIndent(inner_lines, leading_spaces) ==
    IF inner_lines = <<>> THEN leading_spaces
    ELSE LET line == inner_lines[1]
             spaces == count_leading_spaces(line)
         IN  IF line = <<>>
             THEN LeastIndent(Tail(inner_lines), leading_spaces)
             ELSE LeastIndent(Tail(inner_lines),
                      IF leading_spaces = -1 THEN spaces ELSE Min(spaces, leading_spaces))

\* lines 348-372: a snippet with the indentation of its lines removed
Dedent(snippet) ==
    LET lines0 == Split(snippet, NL)
        num_leading_spaces == Find(lines0[Len(lines0)], <<Tick>>)
        lines1 == [i \in DOMAIN lines0 |->
                     IF i = 1 THEN lines0[1] ELSE SliceFrom(lines0[i], num_leading_spaces)]
        inner  == Slice(lines1, 1, -1)
        leading_spaces == LeastIndent(inner, -1)
        lines2 == IF leading_spaces > 0
                  THEN <<lines1[1]>>
                       \o [i \in DOMAIN inner |-> SliceFrom(inner[i], leading_spaces)]
                       \o <<lines1[Len(lines1)]>>
                  ELSE lines1
    IN  Join(NL, lines2)

\* lines 342-374: the loop that extracts the fenced snippets; tmp is the text
\* not yet scanned
RECURSIVE ExtractCode(_, _, _)
ExtractCode(docstring, tmp, code_blocks) ==
    IF ~Contains(tmp, Fence)
    THEN [docstring |-> docstring, code_blocks |-> code_blocks]
    ELSE LET tmp1 == SliceFrom(tmp, Find(tmp, Fence))
             index == Find(SliceFrom(tmp1, 3), Fence) + 6
             snippet == Slice(tmp1, 0, index)
         IN  ExtractCode(PyReplace(docstring, snippet, CodeMarker(Len(code_blocks))),
                         SliceFrom(tmp1, index),
                         Append(code_blocks, Dedent(snippet)))


\* the number of characters at the start of s that Ok accepts
RunLength(s, Ok(_)) ==
    LET stops == {i \in 1..Len(s) : ~Ok(s[i])}
    IN  IF stops = {} THEN Len(s) ELSE (CHOOSE i \in stops : \A j \in stops : i <= j) - 1

IsBlank(c) == c = " "

\* re.search(r"\n( +)# (.*)\n", s): the leftmost match, as the length of
\* group 1, group 2 and the match's end; found is FALSE when there is none
SectionSearch(s) ==
    LET Match(p) ==
            LET k == RunLength(SliceFrom(s, p + 1), IsBlank)
                e == FindFrom(s, NL, p + 3 + k)
            IN  [ok |-> /\ s[p + 1] = "\n"
                        /\ k >= 1
                        /\ StartsAt(s, <<"#", " ">>, p + 1 + k)
                        /\ e # -1,
                 spaces |-> k,
                 title |-> IF e = -1 THEN <<>> ELSE Slice(s, p + 3 + k, e),
                 end |-> e + 1]
        hits == {p \in 0..(Len(s) - 1) : Match(p).ok}
    IN  IF hits = {} THEN [found |-> FALSE, spaces |-> 0, title |-> <<>>, end |-> 0]
        ELSE LET m == Match(CHOOSE p \in hits : \A q \in hits : p <= q)
             IN  [found |-> TRUE, spaces |-> m.spaces, title |-> m.title, end |-> m.end]

\* " " * n
RECURSIVE Spaces(_)
Spaces(n) == IF n <= 0 THEN <<>> ELSE <<" ">> \o Spaces(n - 1)

\* re.sub("^" + " " * n, "", line)
StripIndent(line, n) == IF StartsAt(line, Spaces(n), 0) THEN SliceFrom(line, n) ELSE line

\* [^\s\\\(]
IsKeyChar(c) == ~IsWhite(c) /\ c # "\\" /\ c # "("

\* re.sub(r"^    ([^\s\\\(]+):(.*)", r"- __\1__:\2", line)
TopLevelItem(line) ==
    LET rest == SliceFrom(line, 4)
        n == RunLength(rest, IsKeyChar)
        colons == {j \in 1..(n - 1) : rest[j + 1] = ":"}
        j == CHOOSE c \in colons : \A d \in colons : d <= c
    IN  IF StartsAt(line, Spaces(4), 0) /\ colons # {}
        THEN <<"-", " ", "_", "_">> \o Slice(rest, 0, j) \o <<"_", "_", ":">>
             \o SliceFrom(rest, j + 1)
        ELSE line

\* lines 314-332: a text line after a list starts a new paragraph
RECURSIVE FixTextLines(_, _, _)
FixTextLines(lines, indent, text_block) ==
    IF lines = <<>> THEN <<>>
    ELSE LET line == lines[1]
             spaces == FirstWhere(line, NotWhite)
         IN  IF spaces # -1
             THEN IF line[spaces + 1] = "-"
                  THEN <<IF text_block THEN NL \o line ELSE line>>
                       \o FixTextLines(Tail(lines), spaces + 1, FALSE)
                  ELSE IF spaces < indent
                  THEN <<NL \o line>> \o FixTextLines(Tail(lines), spaces, TRUE)
                  ELSE <<line>> \o FixTextLines(Tail(lines), indent, text_block)
             ELSE <<line>> \o FixTextLines(Tail(lines), 0, FALSE)

\* process_list_block(docstring, starting_point, leading_spaces, marker)
process_list_block(docstring, starting_point, leading_spaces, marker) ==
    LET ending_point == FindFrom(docstring, <<"\n", "\n">>, starting_point)
        block == IF ending_point = -1 THEN SliceFrom(docstring, starting_point)
                 ELSE Slice(docstring, starting_point, ending_point - 1)
        lines0 == Split(block, NL)
        lines1 == [i \in DOMAIN lines0 |-> StripIndent(lines0[i], leading_spaces)]
        lines2 == [i \in DOMAIN lines1 |-> TopLevelItem(lines1[i])]
        lines3 == [i \in DOMAIN lines2 |-> StripIndent(lines2[i], 4)]
    IN  [docstring |-> PyReplace(docstring, block, marker),
         block |-> Join(NL, FixTextLines(lines3, 0, FALSE))]

\* sections[marker] = content, on a dict kept as a list of <<marker, content>>
DictSet(sections, marker, content) ==
    IF \E i \in DOMAIN sections : sections[i][1] = marker
    THEN [i \in DOMAIN sections |->
            IF sections[i][1] = marker THEN <<marker, content>> ELSE sections[i]]
    ELSE Append(sections, <<marker, content>>)

\* lines 381-390: the loop over the section markers
RECURSIVE SectionLoop(_, _, _, _)
SectionLoop(docstring, shift, sections, section_idx) ==
    IF ~(section_idx.found /\ section_idx.title # <<>>)
    THEN [docstring |-> docstring, sections |-> sections]
    ELSE LET shift1 == shift + section_idx.end
             marker == <<"$">> \o PyReplace(section_idx.title, <<" ">>, <<"_">>) \o <<"$">>
             r == process_list_block(docstring, shift1, section_idx.spaces, marker)
         IN  SectionLoop(r.docstring, shift1, DictSet(sections, marker, r.block),
                         SectionSearch(SliceFrom(r.docstring, shift1)))

\* re.sub(r"\n(\s+)# (.*)\n", r"\n\1__\2__\n\n", s)
RECURSIVE SectionTitles(_)
SectionTitles(s) ==
    LET Match(p) ==
            LET k == RunLength(SliceFrom(s, p + 1), IsWhite)
                e == FindFrom(s, NL, p + 3 + k)
            IN  [ok |-> /\ s[p + 1] = "\n"
                        /\ k >= 1
                        /\ StartsAt(s, <<"#", " ">>, p + 1 + k)
                        /\ e # -1,
                 k |-> k, e |-> e]
        hits == {p \in 0..(Len(s) - 1) : Match(p).ok}
    IN  IF hits = {} THEN s
        ELSE LET p == CHOOSE x \in hits : \A y \in hits : x <= y
                 m == Match(p)
             IN  Slice(s, 0, p) \o NL \o Slice(s, p + 1, p + 1 + m.k)
                 \o <<"_", "_">> \o Slice(s, p + 3 + m.k, m.e) \o <<"_", "_", "\n", "\n">>
                 \o SectionTitles(SliceFrom(s, m.e + 1))

\* line.lstrip(" ")
LStrip(line) == SliceFrom(line, RunLength(line, IsBlank))

\* lines 396-397
StripLines(s) ==
    LET lines == Split(s, NL)
    IN  Join(NL, [i \in DOMAIN lines |-> LStrip(lines[i])])

\* lines 400-401
RECURSIVE ReinjectSections(_, _)
ReinjectSections(s, sections) ==
    IF sections = <<>> THEN s
    ELSE ReinjectSections(PyReplace(s, sections[1][1], sections[1][2]), Tail(sections))

\* lines 404-405, from code block i (0-based) on
RECURSIVE ReinjectCode(_, _, _)
ReinjectCode(s, code_blocks, i) ==
    IF i >= Len(code_blocks) THEN s
    ELSE ReinjectCode(PyReplace(s, CodeMarker(i), code_blocks[i + 1]), code_blocks, i + 1)

ParamTok == <<":", "p", "a", "r", "a", "m">>

ReturnTok == <<":", "r", "e", "t", "u", "r", "n", ":">>

\* re.sub(r":param(.*):", r"\n- `\1`:", s)
RECURSIVE ParamItems(_)
ParamItems(s) ==
    LET LineEnd(i) == LET e == FindFrom(s, NL, i) IN IF e = -1 THEN Len(s) ELSE e
        Colons(i) == {c \in (i + 6)..(LineEnd(i) - 1) : s[c + 1] = ":"}
        hits == {i \in 0..(Len(s) - 6) : StartsAt(s, ParamTok, i) /\ Colons(i) # {}}
    IN  IF hits = {} THEN s
        ELSE LET i == CHOOSE x \in hits : \A y \in hits : x <= y
                 c == CHOOSE x \in Colons(i) : \A y \in Colons(i) : y <= x
             IN  Slice(s, 0, i) \o <<"\n", "-", " ", Tick>> \o Slice(s, i + 6, c)
                 \o <<Tick, ":">> \o ParamItems(SliceFrom(s, c + 1))

LowerCase == <<"a", "b", "c", "d", "e", "f", "g", "h", "i", "j", "k", "l", "m",
               "n", "o", "p", "q", "r", "s", "t", "u", "v", "w", "x", "y", "z">>

UpperCase == <<"A", "B", "C", "D", "E", "F", "G", "H", "I", "J", "K", "L", "M",
               "N", "O", "P", "Q", "R", "S", "T", "U", "V", "W", "X", "Y", "Z">>

\* c.upper() for a lower-case letter
ToUpper(c) == UpperCase[CHOOSE i \in DOMAIN LowerCase : LowerCase[i] = c]

\* re.sub(r":return: ([a-z])", lambda m: ":return: {}".format(m.group(1).upper()), s)
RECURSIVE CapitalizeReturn(_)
CapitalizeReturn(s) ==
    LET pat == ReturnTok \o <<" ">>
        hits == {i \in 0..(Len(s) - 10) :
                    StartsAt(s, pat, i) /\ s[i + 10] \in Range(LowerCase)}
    IN  IF hits = {} THEN s
        ELSE LET i == CHOOSE x \in hits : \A y \in hits : x <= y
             IN  Slice(s, 0, i) \o pat \o <<ToUpper(s[i + 10])>>
                 \o CapitalizeReturn(SliceFrom(s, i + 10))

ArgumentsHeading == <<"\n", "*", "*", "A", "r", "g", "u", "m", "e", "n", "t", "s", "*", "*", " ", " ", "\n", ":", "p", "a", "r", "a", "m">>

ReturnHeading == <<"\n", "*", "*", "R", "e", "t", "u", "r", "n", "*", "*", " ", " ", "\n">>

\* lines 408-415
SpektralMarkup(s) ==
    LET s1 == Replace(s, ParamTok, ArgumentsHeading, 1)
        s2 == ParamItems(s1)
        s3 == CapitalizeReturn(s2)
    IN  PyReplace(s3, ReturnTok, ReturnHeading)

\* process_docstring(docstring)
\* lines 340-374: the docstring with its code blocks replaced by tokens
CodeBlocksOut(docstring) ==
    IF Contains(docstring, Fence)
    THEN ExtractCode(docstring, docstring, <<>>)
    ELSE [docstring |-> docstring, code_blocks |-> <<>>]

\* lines 377-390: then with its list sections replaced by tokens
SectionsOut(a) ==
    [code_blocks |-> a.code_blocks,
     s |-> SectionLoop(a.docstring, 0, <<>>, SectionSearch(a.docstring))]

\* lines 393-405: titles, stripped lines, and the sections and the code
\* blocks put back
Reinjected(b) ==
    ReinjectCode(ReinjectSections(StripLines(SectionTitles(b.s.docstring)), b.s.sections),
                 b.code_blocks, 0)

process_docstring(docstring) ==
    SpektralMarkup(Reinjected(SectionsOut(CodeBlocksOut(docstring))))

-----------------------------------------------------------------------------
(* Signatures.  A signature is text whose module components ("spektral",    *)
(* "layers", ...) are single tokens and whose other characters are tokens   *)
(* of their own.  A callable is given by what inspect reports of it.        *)

\* the outcome of a call: a value, or the exception it raised
Returned(sig) == [exc |-> "none", sig |-> sig]

Raised(exc) == [exc |-> exc, sig |-> <<>>]

\* lines 225-227: str(v), a str in single quotes
RenderDefault(v) == IF v.t = "str" THEN <<"'">> \o v.s \o <<"'">> ELSE v.s

\* lines 204-210: the parameter names and the defaults after the keyword-only
\* parameters are added.  defaults is a tuple unless it was None, and a tuple
\* has no append; kwonlydefaults is None or a dict
KwOnlyExtend(sp) ==
    LET defaults == IF sp.hasDefaults THEN sp.defaults ELSE <<>>
    IN  IF ~sp.full \/ sp.kwonlyargs = <<>>
        THEN [exc |-> "none", args |-> sp.args, defaults |-> defaults]
        ELSE IF sp.hasDefaults
        THEN [exc |-> "AttributeError", args |-> <<>>, defaults |-> <<>>]
        ELSE IF ~sp.hasKwDefaults
        THEN [exc |-> "TypeError", args |-> <<>>, defaults |-> <<>>]
        ELSE IF \E i \in DOMAIN sp.kwonlyargs : sp.kwonlyargs[i] \notin DOMAIN sp.kwonlydefaults
        THEN [exc |-> "KeyError", args |-> <<>>, defaults |-> <<>>]
        ELSE [exc |-> "none",
              args |-> sp.args \o sp.kwonlyargs,
              defaults |-> defaults \o [i \in DOMAIN sp.kwonlyargs |->
                                          sp.kwonlydefaults[sp.kwonlyargs[i]]]]

\* lines 211-214
MethodArgs(args, method) == IF method THEN SliceFrom(args, 1) ELSE args

\* line 216: zip(args[-len(defaults):], defaults)
KeywordArgs(args, defaults) ==
    LET names == Slice(args, 0 - Len(defaults), Len(args))
    IN  [i \in 1..Min(Len(names), Len(defaults)) |-> <<names[i], defaults[i]>>]

\* line 217: args[: -len(defaults)]
PositionalArgs(args, defaults) == Slice(args, 0, 0 - Len(defaults))

\* lines 220-231: the text of the signature.  With defaults kwargs is a zip
\* object, which is true even when it yields nothing
SignatureText(module, name, args, kwargs, defaults) ==
    LET st0 == module \o <<".">> \o name \o <<"(">>
        st1 == st0 \o Flatten([i \in DOMAIN args |-> <<args[i], ",", " ">>])
        st2 == st1 \o Flatten([i \in DOMAIN kwargs |->
                   <<kwargs[i][1], "=">> \o RenderDefault(kwargs[i][2]) \o <<",", " ">>])
    IN  IF defaults # <<>> \/ args # <<>>
        THEN Slice(st2, 0, -2) \o <<")">>
        ELSE st2 \o <<")">>

IsDigit(c) == c \in {"0", "1", "2", "3", "4", "5", "6", "7", "8", "9"}

\* re.split(r"\.(?!\d)", signature)
RECURSIVE SplitDots(_)
SplitDots(sig) ==
    LET hits == {i \in 1..Len(sig) :
                    sig[i] = "." /\ ~(i < Len(sig) /\ IsDigit(sig[i + 1]))}
    IN  IF hits = {} THEN <<sig>>
        ELSE LET i == CHOOSE x \in hits : \A y \in hits : x <= y
             IN  <<SubSeq(sig, 1, i - 1)>> \o SplitDots(SubSeq(sig, i + 1, Len(sig)))

\* post_process_signature(signature)
post_process_signature(signature) ==
    LET parts == SplitDots(signature)
        sig1 == IF Len(parts) >= 4 /\ parts[2] = <<"layers">>
                THEN <<"spektral", ".", "layers", ".">> \o Join(<<".">>, SliceFrom(parts, 3))
                ELSE signature
    IN  IF Len(parts) >= 4 /\ parts[2] = <<"utils">>
        THEN <<"spektral", ".", "utils", ".">> \o Join(<<".">>, SliceFrom(parts, 3))
        ELSE sig1

\* clean_module_name(name)
clean_module_name(name) == name

\* get_function_signature(fn, method)
get_function_signature(fn, method) ==
    LET sp == fn.spec
        ext == KwOnlyExtend(sp)
        args == MethodArgs(ext.args, method)
        kwargs == IF ext.defaults # <<>> THEN KeywordArgs(args, ext.defaults) ELSE <<>>
        positional == IF ext.defaults # <<>> THEN PositionalArgs(args, ext.defaults) ELSE args
    IN  IF sp.raises # "none" THEN Raised(sp.raises)
        ELSE IF fn.wrapped /\ sp.full THEN Raised("ValueError")
        ELSE IF ext.exc # "none" THEN Raised(ext.exc)
        ELSE Returned(post_process_signature(
                 SignatureText(clean_module_name(fn.module), fn.name,
                               positional, kwargs, ext.defaults)))

InitName == <<"_", "_", "i", "n", "i", "t", "_", "_">>

\* get_class_signature(cls): fallback tells which branch produced the signature
get_class_signature(cls) ==
    LET r == get_function_signature(cls.init, TRUE)
    IN  IF r.exc = "none"
        THEN [exc |-> "none", fallback |-> FALSE,
              sig |-> post_process_signature(PyReplace(r.sig, InitName, cls.name))]
        ELSE IF r.exc \in {"TypeError", "AttributeError"}
        THEN [exc |-> "none", fallback |-> TRUE,
              sig |-> post_process_signature(
                          clean_module_name(cls.module) \o <<".">> \o cls.name \o <<"(", ")">>)]
        ELSE [exc |-> r.exc, fallback |-> FALSE, sig |-> <<>>]

\* code_snippet(snippet)
code_snippet(snippet) == Fence \o <<"python", "\n">> \o snippet \o NL \o Fence \o NL

\* render_function(function, method): signature is the one put in the snippet
render_function(function, method) ==
    LET r == get_function_signature(function, method)
        signature == IF method
                     THEN PyReplace(r.sig, clean_module_name(function.module) \o <<".">>, <<>>)
                     ELSE r.sig
        subblocks == <<<<"### ">> \o function.name \o NL, code_snippet(signature)>>
                     \o (IF function.doc # <<>>
                         THEN <<process_docstring(function.doc)>> ELSE <<>>)
    IN  IF r.exc # "none" THEN [exc |-> r.exc, signature |-> <<>>, out |-> <<>>]
        ELSE [exc |-> "none", signature |-> signature,
              out |-> Join(<<"\n", "\n">>, subblocks)]

-----------------------------------------------------------------------------
(* The docstring reformatter applied to docstrings with fenced blocks *)

\* the deepest indentation of a fenced block
MaxIndent == 2

\* the lines a fenced block may hold, each given with its indentation beyond
\* the block's own
CodeLines ==
    { <<"x">>, <<" ", "y">>,
      <<":", "p", "a", "r", "a", "m", " ", "a", ":", " ", "b">>,
      <<":", "r", "e", "t", "u", "r", "n", ":", " ", "r">> }

\* the inner texts of a block: one or two lines
InnerTexts == {<<l>> : l \in CodeLines} \cup {<<l, m>> : l \in CodeLines, m \in CodeLines}

\* a fenced block at indentation k whose inner lines are indented with it
FencedBlock(k, lines) ==
    Spaces(k) \o Fence \o NL
    \o Flatten([i \in DOMAIN lines |-> Spaces(k) \o lines[i] \o NL])
    \o Spaces(k) \o Fence

\* the inner text of that block: everything between the two fence lines
InnerText(k, lines) == Join(NL, [i \in DOMAIN lines |-> Spaces(k) \o lines[i]])

\* what may precede a block: nothing, prose, a section with a list
Prefixes ==
    { <<>>, <<"t", "\n">>,
      <<"\n", " ", " ", "#", " ", "A", "\n", " ", " ", " ", " ", " ", " ", "k", ":", " ", "v", "\n", "\n">> }

\* what may follow it
Suffixes == { <<>>, <<"\n", "u">> }

\* docstrings with one block, and with two
DocCalls ==
    { [op |-> "process_docstring",
       docstring |-> p \o FencedBlock(k, ls) \o s,
       inner |-> <<InnerText(k, ls)>>] :
         p \in Prefixes, k \in 0..MaxIndent, ls \in InnerTexts, s \in Suffixes }
    \cup
    { [op |-> "process_docstring",
       docstring |-> FencedBlock(k, <<l>>) \o <<"\n", "t", "\n">> \o FencedBlock(0, <<m>>),
       inner |-> <<InnerText(k, <<l>>), InnerText(0, <<m>>)>>] :
         k \in 0..MaxIndent, l \in CodeLines, m \in CodeLines }

\* the script's variables while a function is applied on its own
ScriptIdle ==
    /\ fs = << >> /\ manifest = << >> /\ ids = << >> /\ pc = "call" /\ idx = 0
    /\ run = 0 /\ snap = << >> /\ before = << >> /\ last = [op |-> "none", idx |-> 0]

DocInit ==
    /\ ScriptIdle
    /\ call \in DocCalls
    /\ result = [op |-> "none"]

ProcessDocstring ==
    /\ call.op = "process_docstring"
    /\ result.op = "none"
    /\ result' = [op |-> "process_docstring", out |-> process_docstring(call.docstring)]
    /\ UNCHANGED <<call, scriptVars>>

DocNext == ProcessDocstring

SpecDoc == DocInit /\ [][DocNext]_vars

\* C7: the output of process_docstring holds the inner text of every closed
\* fenced block of the docstring, character for character.
C7_CodeVerbatim ==
    result.op = "process_docstring"
        => \A i \in DOMAIN call.inner : Contains(result.out, call.inner[i])

-----------------------------------------------------------------------------
(* The signature functions applied to the callables of a library *)

\* the most positional parameters, and the most keyword-only ones
MaxArgs == 3

MaxKwOnly == 2

\* parameter names in declaration order: the receiver first
ArgNames == <<"s", "a", "b", "c", "d">>

KwNames == <<"k", "j", "i", "h">>

IntVal(d) == [t |-> "int", s |-> <<d>>]

\* the defaults parameter b may declare: a dotted str, a float, a plain str
BDefaults ==
    { [t |-> "str", s |-> <<"x", ".", "y">>],
      [t |-> "float", s |-> <<"0", ".", "5">>],
      [t |-> "str", s |-> <<"x">>] }

\* the default a parameter declares when it declares one
DeclaredDefault(name, bval) ==
    CASE name = "s" -> IntVal("7")
      [] name = "a" -> IntVal("1")
      [] name = "b" -> bval
      [] name = "c" -> IntVal("3")
      [] name = "d" -> IntVal("4")
      [] name = "k" -> IntVal("2")
      [] name = "j" -> [t |-> "str", s |-> <<"z">>]
      [] name = "i" -> IntVal("5")
      [] OTHER -> IntVal("6")

\* what inspect reports of a callable with len positional parameters, the last
\* n of them with defaults, and (for a FullArgSpec) the keyword-only
\* parameters kw, those in kwd with defaults
ArgSpecOf(len, n, bval, full, kw, kwd) ==
    LET args == SubSeq(ArgNames, 1, len)
    IN  [raises |-> "none", full |-> full, args |-> args,
         hasDefaults |-> n > 0,
         defaults |-> [i \in 1..n |-> DeclaredDefault(args[len - n + i], bval)],
         kwonlyargs |-> kw,
         hasKwDefaults |-> kwd # {},
         kwonlydefaults |-> [x \in kwd |-> DeclaredDefault(x, bval)]]

\* getargspec returns an ArgSpec, or raises ValueError (keyword-only
\* parameters or annotations) and getfullargspec returns a FullArgSpec
ArgSpecs ==
    { ArgSpecOf(x[1], x[2], x[3], x[4], SubSeq(KwNames, 1, x[5]), x[6]) :
        x \in { y \in (0..MaxArgs) \X (0..MaxArgs) \X BDefaults \X BOOLEAN
                       \X (0..MaxKwOnly) \X (SUBSET Range(SubSeq(KwNames, 1, MaxKwOnly))) :
                  /\ y[2] <= y[1]
                  /\ ~y[4] => y[5] = 0
                  /\ y[6] \subseteq Range(SubSeq(KwNames, 1, y[5])) } }

\* fn.__module__
Modules ==
    { <<"spektral", ".", "data", ".", "loaders">>,
      <<"spektral", ".", "layers", ".", "convolutional", ".", "gcn_conv">>,
      <<"spektral", ".", "utils", ".", "convolution">>,
      <<"spektral", ".", "utils">>,
      <<"spektral", ".", "layers">> }

\* functions and methods; wrapped tells that the callable has an
\* _original_function, whose parameters are then the ones inspected
Callables(name, docs) ==
    { [module |-> m, name |-> name, wrapped |-> w, doc |-> d, spec |-> sp] :
        m \in Modules, w \in BOOLEAN, d \in docs, sp \in ArgSpecs }

\* cls.__init__ of a class that defines no constructor: inspecting it raises
NoConstructor(m, exc) ==
    [module |-> m, name |-> InitName, wrapped |-> FALSE, doc |-> <<>>,
     spec |-> [ArgSpecOf(1, 0, IntVal("0"), FALSE, <<>>, {}) EXCEPT !.raises = exc]]

ClassName == <<"G", "C", "N">>

\* a method declares its receiver
HasReceiver(f) == f.spec.args # <<>>

Classes ==
    { [module |-> f.module, name |-> ClassName, hasCtor |-> TRUE, init |-> f] :
        f \in {g \in Callables(InitName, {<<>>}) : HasReceiver(g)} }
    \cup
    { [module |-> m, name |-> ClassName, hasCtor |-> FALSE, init |-> NoConstructor(m, exc)] :
        m \in Modules, exc \in {"TypeError", "AttributeError"} }

SigCalls ==
    { c \in [op : {"get_function_signature"}, fn : Callables(<<"f">>, {<<>>}),
             method : BOOLEAN] : c.method => HasReceiver(c.fn) }
    \cup
    { c \in [op : {"render_function"}, fn : Callables(<<"f">>, {<<>>, <<"d">>}),
             method : BOOLEAN] : c.method => HasReceiver(c.fn) }
    \cup
    { [op |-> "get_class_signature", cls |-> c] : c \in Classes }

SigInit ==
    /\ ScriptIdle
    /\ call \in SigCalls
    /\ result = [op |-> "none"]

GetFunctionSignature ==
    /\ call.op = "get_function_signature"
    /\ result.op = "none"
    /\ result' = [op |-> call.op, val |-> get_function_signature(call.fn, call.method)]
    /\ UNCHANGED <<call, scriptVars>>

GetClassSignature ==
    /\ call.op = "get_class_signature"
    /\ result.op = "none"
    /\ result' = [op |-> call.op, val |-> get_class_signature(call.cls)]
    /\ UNCHANGED <<call, scriptVars>>

RenderFunction ==
    /\ call.op = "render_function"
    /\ result.op = "none"
    /\ result' = [op |-> call.op, val |-> render_function(call.fn, call.method)]
    /\ UNCHANGED <<call, scriptVars>>

SigNext ==
    \/ GetFunctionSignature
    \/ GetClassSignature
    \/ RenderFunction

SpecSig == SigInit /\ [][SigNext]_vars

\* the named parameters a callable declares, in declaration order
Declared(fn) ==
    fn.spec.args \o (IF fn.spec.full THEN fn.spec.kwonlyargs ELSE <<>>)

\* whether a declared parameter declares a default, and that default
HasDefault(fn, name) ==
    \/ \E i \in DOMAIN fn.spec.args :
          fn.spec.args[i] = name /\ i > Len(fn.spec.args) - Len(fn.spec.defaults)
    \/ name \in DOMAIN fn.spec.kwonlydefaults

DefaultOf(fn, name) ==
    IF name \in DOMAIN fn.spec.kwonlydefaults
    THEN fn.spec.kwonlydefaults[name]
    ELSE LET i == CHOOSE j \in DOMAIN fn.spec.args : fn.spec.args[j] = name
         IN  fn.spec.defaults[i - (Len(fn.spec.args) - Len(fn.spec.defaults))]

\* the items of the argument list of a signature: the text between its first
\* "(" and its final ")", cut at every ", "
RenderedItems(sig) ==
    LET i == Find(sig, <<"(">>)
        inner == Slice(sig, i + 1, -1)
    IN  IF i = -1 \/ inner = <<>> THEN <<>> ELSE Split(inner, <<",", " ">>)

\* the parameter an item names
ItemName(item) == IF item = <<>> THEN "" ELSE item[1]

\* C6: with method=True the first declared parameter is not in the argument
\* list, and every other declared parameter is in it exactly once, in
\* declaration order.
C6_ReceiverRemoved ==
    result.op = "get_function_signature" /\ call.method /\ result.val.exc = "none"
        => LET items == RenderedItems(result.val.sig)
           IN  [i \in DOMAIN items |-> ItemName(items[i])]
                   = SliceFrom(Declared(call.fn), 1)

\* C8: a class without a constructor gets the empty-argument signature and
\* no failure, and only such a class gets the fallback.
C8_FallbackOnlyWithoutConstructor ==
    result.op = "get_class_signature"
        => /\ ~call.cls.hasCtor
                => /\ result.val.exc = "none"
                   /\ Slice(result.val.sig, 0 - (Len(ClassName) + 2), Len(result.val.sig))
                          = ClassName \o <<"(", ")">>
           /\ call.cls.hasCtor /\ result.val.exc = "none" => ~result.val.fallback

\* C9: the signature render_function puts in the snippet of a method has the
\* form name(args), without a dotted prefix, whatever the method's module.
C9_MethodPrefixStripped ==
    result.op = "render_function" /\ call.method /\ result.val.exc = "none"
        => /\ StartsAt(result.val.signature, call.fn.name \o <<"(">>, 0)
           /\ result.val.signature[Len(result.val.signature)] = ")"

\* C10: every rendered parameter that declares a default is rendered as
\* name=value with its own default (a str in single quotes), every other one
\* bare, and the bare ones come first.
C10_OwnDefaults ==
    result.op = "get_function_signature" /\ result.val.exc = "none"
        => LET items == RenderedItems(result.val.sig)
               fn == call.fn
           IN  /\ \A i \in DOMAIN items :
                     LET name == ItemName(items[i])
                     IN  /\ name \in Range(Declared(fn))
                         /\ items[i] = IF HasDefault(fn, name)
                                       THEN <<name, "=">> \o
                                            (IF DefaultOf(fn, name).t = "str"
                                             THEN <<"'">> \o DefaultOf(fn, name).s \o <<"'">>
                                             ELSE DefaultOf(fn, name).s)
                                       ELSE <<name>>
               /\ \A i, j \in DOMAIN items :
                     i < j /\ Contains(items[i], <<"=">>) => Contains(items[j], <<"=">>)

====
